---- MODULE Spec2Model ----
(***************************************************************************)
(* fair_metrics (src/fairness_metrics.py): group-fairness disparities of a *)
(* binary classifier between an advantaged and a disadvantaged subgroup.   *)
(*                                                                         *)
(* One call of fair_metrics is modelled as a run of the state machine: the *)
(* arguments are fixed by Init, and every statement group of the function  *)
(* that can raise is one action.  Real values are exact rationals <<n, d>> *)
(* (d > 0, lowest terms) extended with the IEEE special values numpy's     *)
(* division yields for a zero divisor: <<0,0>> is nan, <<1,0>> is +inf and *)
(* <<-1,0>> is -inf.  They are the values the expressions of the source    *)
(* denote; the binary64 values Python computes for the entries built from  *)
(* FNR, FPR and TPR, where rounding depends on the order of operations,    *)
(* are carried beside them in result64.                                    *)
(***************************************************************************)
EXTENDS Integers, Sequences, FiniteSets

VARIABLES
    y_actual,       \* actual binary outcome, one entry per row
    y_pred_prob,    \* predicted score level, one entry per row
    y_pred_binary,  \* predicted binary outcome, one entry per row
    X_test,         \* the column X_test[protected_group_name], one entry per row
    adv_val,        \* privileged value of the protected attribute
    disadv_val,     \* unprivileged value of the protected attribute
    pc,             \* the statement group the call is about to execute
    cm_adv,         \* (tn_adv, fp_adv, fn_adv, tp_adv) once unpacked
    cm_disadv,      \* (tn_disadv, fp_disadv, fn_disadv, tp_disadv) once unpacked
    roc_diff,       \* abs(roc_disadv - roc_adv) once computed
    ps_diff,        \* abs(ps_disadv - ps_adv) once computed
    result,         \* the returned list of (name, value) pairs, as exact values
    result64,       \* the binary64 values of the entries built from FNR, FPR, TPR
    raised          \* the exception that ended the call, and where

vars == <<y_actual, y_pred_prob, y_pred_binary, X_test, adv_val, disadv_val,
          pc, cm_adv, cm_disadv, roc_diff, ps_diff, result, result64, raised>>

(***************************************************************************)
(* Bounds of the explored inputs.                                          *)
(***************************************************************************)
\* Rows of an evaluation set whose scores take both levels.
MaxN == 4

\* Rows of an evaluation set whose scores are all tied at the lowest level.
MaxTied == 7

\* Score levels of y_pred_prob; only their order enters AUC and average
\* precision (level k stands for the probability k/3).
ScoreLevels == {1, 2}

\* Values the protected attribute takes in the rows and in adv_val/disadv_val.
GroupValues == {0, 1}

(***************************************************************************)
(* Extended rational arithmetic (Python/numpy float operations).           *)
(***************************************************************************)
AbsInt(i) == IF i < 0 THEN -i ELSE i

RECURSIVE GCD(_, _)
GCD(a, b) == IF b = 0 THEN a ELSE GCD(b, a % b)

Norm(n, d) ==
    IF n = 0 THEN <<0, 1>>
    ELSE LET g == GCD(AbsInt(n), d) IN <<n \div g, d \div g>>

NaN == <<0, 0>>
PosInf == <<1, 0>>
Zero == <<0, 1>>

IsFinite(x) == x[2] > 0
IsNaN(x) == x = NaN

\* numpy true division of two non-negative integer counts: a zero divisor
\* gives nan (0/0) or inf (a/0, a > 0) with a RuntimeWarning, no exception.
TrueDivide(a, b) ==
    IF b = 0 THEN (IF a = 0 THEN NaN ELSE PosInf) ELSE Norm(a, b)

FNeg(x) == <<-x[1], x[2]>>

FAdd(x, y) ==
    IF IsNaN(x) \/ IsNaN(y) THEN NaN
    ELSE IF ~IsFinite(x) THEN (IF ~IsFinite(y) /\ y # x THEN NaN ELSE x)
    ELSE IF ~IsFinite(y) THEN y
    ELSE Norm(x[1] * y[2] + y[1] * x[2], x[2] * y[2])

FSub(x, y) == FAdd(x, FNeg(y))

FAbs(x) == <<AbsInt(x[1]), x[2]>>

FHalf(x) == IF IsFinite(x) THEN Norm(x[1], 2 * x[2]) ELSE x

FMul(x, y) == Norm(x[1] * y[1], x[2] * y[2])

(***************************************************************************)
(* IEEE 754 binary64 arithmetic, for the rates in [0, 1] and their sums    *)
(* and differences.  A value is [neg, mag]: mag is the magnitude in units  *)
(* of 2^-58 as three limbs <<h, m, l>> to base 2^20 (m, l < 2^20), so that *)
(* every binary64 value that occurs (rates k/n with n <= 7, sums and       *)
(* differences of magnitude at most 2, halves of these) is represented     *)
(* exactly.  Each operation computes the exact result and rounds it to 53  *)
(* significant bits, ties to even.                                         *)
(***************************************************************************)
Precision == 53
GridBits == Precision + 5
LimbBase == 2^20

BitLen(n) == IF n = 0 THEN 0 ELSE CHOOSE k \in 1..30 : 2^(k - 1) <= n /\ n < 2^k

MagBitLen(M) ==
    IF M[1] > 0 THEN 40 + BitLen(M[1])
    ELSE IF M[2] > 0 THEN 20 + BitLen(M[2])
    ELSE BitLen(M[3])

MagZero == <<0, 0, 0>>

MagAdd(x, y) ==
    LET l == x[3] + y[3]
        m == x[2] + y[2] + (l \div LimbBase)
    IN <<x[1] + y[1] + (m \div LimbBase), m % LimbBase, l % LimbBase>>

\* x - y for x >= y.
MagSub(x, y) ==
    LET l == x[3] - y[3]
        bl == IF l < 0 THEN 1 ELSE 0
        m == x[2] - y[2] - bl
        bm == IF m < 0 THEN 1 ELSE 0
    IN <<x[1] - y[1] - bm, m + bm * LimbBase, l + bl * LimbBase>>

MagLess(x, y) ==
    \/ x[1] < y[1]
    \/ x[1] = y[1] /\ x[2] < y[2]
    \/ x[1] = y[1] /\ x[2] = y[2] /\ x[3] < y[3]

\* Round to nearest, ties to even; inexact says that the exact value lies
\* strictly above M (bits beyond the grid were cut off).
Round64(M, inexact) ==
    LET p == MagBitLen(M)
        k == p - Precision
        low == M[3] % (2^k)
        half == 2^(k - 1)
        odd == (M[3] \div (2^k)) % 2 = 1
        down == <<M[1], M[2], M[3] - low>>
    IN IF p <= Precision THEN M
       ELSE IF low > half \/ (low = half /\ (inexact \/ odd))
            THEN MagAdd(down, <<0, 0, 2^k>>)
       ELSE down

F64(neg, mag) == [neg |-> neg /\ mag # MagZero, mag |-> mag]

\* a / b for integer counts 0 <= a <= b, b > 0 (numpy converts both to
\* binary64 exactly and divides).
Div64(a, b) ==
    LET h0 == a * 2^(GridBits - 40)
        r1 == h0 % b
        r2 == (r1 * LimbBase) % b
        r3 == (r2 * LimbBase) % b
    IN F64(FALSE, Round64(<<h0 \div b, (r1 * LimbBase) \div b, (r2 * LimbBase) \div b>>,
                          r3 # 0))

Neg64(x) == F64(~x.neg, x.mag)

Add64(x, y) ==
    IF x.neg = y.neg THEN F64(x.neg, Round64(MagAdd(x.mag, y.mag), FALSE))
    ELSE IF MagLess(x.mag, y.mag) THEN F64(y.neg, Round64(MagSub(y.mag, x.mag), FALSE))
    ELSE F64(x.neg, Round64(MagSub(x.mag, y.mag), FALSE))

Sub64(x, y) == Add64(x, Neg64(y))

Abs64(x) == F64(FALSE, x.mag)

\* 0.5 * x, exact in binary64.
Half64(x) ==
    F64(x.neg, <<x.mag[1] \div 2,
                 (x.mag[2] + (x.mag[1] % 2) * LimbBase) \div 2,
                 (x.mag[3] + (x.mag[2] % 2) * LimbBase) \div 2>>)

(***************************************************************************)
(* Boolean-mask indexing: y[X_test[protected_group_name] == v].            *)
(***************************************************************************)
RECURSIVE MaskedFrom(_, _, _, _)
MaskedFrom(seq, col, v, i) ==
    IF i > Len(seq) THEN <<>>
    ELSE (IF col[i] = v THEN <<seq[i]>> ELSE <<>>) \o MaskedFrom(seq, col, v, i + 1)

Masked(seq, col, v) == MaskedFrom(seq, col, v, 1)

(***************************************************************************)
(* sklearn.metrics as used by fair_metrics.                                *)
(***************************************************************************)
Elems(seq) == {seq[i] : i \in 1..Len(seq)}

RECURSIVE SortedSeq(_)
SortedSeq(S) ==
    IF S = {} THEN <<>>
    ELSE LET m == CHOOSE x \in S : \A z \in S : x <= z
         IN <<m>> \o SortedSeq(S \ {m})

Count(yt, yp, a, b) ==
    Cardinality({i \in 1..Len(yt) : yt[i] = a /\ yp[i] = b})

\* A confusion matrix always laid out over the labels 0 and 1 (as with
\* labels=[0, 1]), zero-filled for labels that do not occur.
ConfusionMatrixRavel_fixedLabels(yt, yp) ==
    <<Count(yt, yp, 0, 0), Count(yt, yp, 0, 1), Count(yt, yp, 1, 0), Count(yt, yp, 1, 1)>>

\* confusion_matrix(y_true, y_pred).ravel(): with labels=None the label set is
\* the sorted union of the values occurring in y_true and y_pred, the matrix
\* is n x n over it (C[i][j]: true label i, predicted label j) and ravel()
\* flattens it row by row.
ConfusionMatrixRavel(yt, yp) ==
    LET labels == SortedSeq(Elems(yt) \cup Elems(yp))
        n == Len(labels)
    IN [k \in 1..(n * n) |->
            Count(yt, yp, labels[((k - 1) \div n) + 1], labels[((k - 1) % n) + 1])]

\* tn, fp, fn, tp = <ravel>: the unpacking succeeds only on four values.
Unpacks(flat) == Len(flat) = 4

Counts(flat) == [tn |-> flat[1], fp |-> flat[2], fn |-> flat[3], tp |-> flat[4]]

\* roc_auc_score raises ValueError ("Only one class present in y_true")
\* unless y_true holds exactly two classes.
RocDefined(yt) == Cardinality(Elems(yt)) = 2

\* roc_auc_score(y_true, y_score): the area under the ROC curve, which is the
\* share of (positive, negative) pairs ranked correctly, ties counting half.
RocAucScore(yt, ys) ==
    LET pos == {i \in 1..Len(yt) : yt[i] = 1}
        neg == {i \in 1..Len(yt) : yt[i] = 0}
        gt == Cardinality({pr \in pos \X neg : ys[pr[1]] > ys[pr[2]]})
        eq == Cardinality({pr \in pos \X neg : ys[pr[1]] = ys[pr[2]]})
    IN TrueDivide(2 * gt + eq, 2 * Cardinality(pos) * Cardinality(neg))

RECURSIVE ApSum(_, _, _)
ApSum(yt, ys, T) ==
    IF T = {} THEN Zero
    ELSE LET s == CHOOSE x \in T : TRUE
             npos == Cardinality({i \in 1..Len(yt) : yt[i] = 1})
             at == Cardinality({i \in 1..Len(yt) : yt[i] = 1 /\ ys[i] = s})
             tps == Cardinality({i \in 1..Len(yt) : yt[i] = 1 /\ ys[i] >= s})
             fps == Cardinality({i \in 1..Len(yt) : yt[i] # 1 /\ ys[i] >= s})
         IN FAdd(FMul(TrueDivide(at, npos), TrueDivide(tps, tps + fps)),
                 ApSum(yt, ys, T \ {s}))

\* average_precision_score(y_true, y_score) = sum_n (R_n - R_{n-1}) * P_n
\* over the distinct score thresholds.
AveragePrecisionScore(yt, ys) == ApSum(yt, ys, Elems(ys))

(***************************************************************************)
(* The rates of one subgroup, from its confusion counts (lines 72-102).    *)
(***************************************************************************)
\* A false-negative rate taken over the wrong column of the confusion matrix.
FNR_overNegatives(c) == TrueDivide(c.fn, c.fn + c.tn)

FNR(c) == TrueDivide(c.fn, c.fn + c.tp)

FPR(c) == TrueDivide(c.fp, c.fp + c.tn)

TPR(c) == TrueDivide(c.tp, c.tp + c.fn)

Prec(c) == TrueDivide(c.tp, c.tp + c.fp)

DemoParity(c) == TrueDivide(c.tp + c.fp, c.tn + c.fp + c.fn + c.tp)

TE(c) == TrueDivide(c.fn, c.fp)

(***************************************************************************)
(* The disparities between the two subgroups (a: advantaged,               *)
(* d: disadvantaged).                                                      *)
(***************************************************************************)
EOpp_diff(a, d) == FAbs(FSub(FNR(d), FNR(a)))

pred_eq_diff(a, d) == FAbs(FSub(FPR(d), FPR(a)))

EOdds_diff(a, d) == FAbs(FSub(FAdd(TPR(d), FPR(d)), FAdd(TPR(a), FPR(a))))

prec_diff(a, d) == FAbs(FSub(Prec(d), Prec(a)))

demo_parity_diff(a, d) == FAbs(FSub(DemoParity(d), DemoParity(a)))

AOD(a, d) == FHalf(FAdd(FSub(FPR(d), FPR(a)), FSub(TPR(d), TPR(a))))

TE_diff(a, d) == FAbs(FSub(TE(d), TE(a)))

\* The signed AOD returned without abs().
AOD_signed(a, d) == AOD(a, d)

\* abs(AOD), as placed in the returned list (line 108).
AOD_abs(a, d) == FAbs(AOD(a, d))

\* A returned list with the PredEq and Equal Odds entries exchanged.
ReturnList_exchanged(roc, ps, a, d) ==
    << <<"AUC", roc>>, <<"Avg PrecScore", ps>>, <<"Equal Opps", EOpp_diff(a, d)>>,
       <<"Equal Odds", EOdds_diff(a, d)>>, <<"PredEq", pred_eq_diff(a, d)>>,
       <<"PredParity", prec_diff(a, d)>>, <<"DemoParity", demo_parity_diff(a, d)>>,
       <<"AOD", AOD_abs(a, d)>>, <<"TEq", TE_diff(a, d)>> >>

\* Lines 73-85 and 98 in binary64.
FNR64(c) == Div64(c.fn, c.fn + c.tp)

FPR64(c) == Div64(c.fp, c.fp + c.tn)

TPR64(c) == Div64(c.tp, c.tp + c.fn)

\* An average odds difference that subtracts the TPR gap instead of adding it.
AOD64_minusTpr(a, d) ==
    Half64(Sub64(Sub64(FPR64(d), FPR64(a)), Sub64(TPR64(d), TPR64(a))))

AOD64(a, d) == Half64(Add64(Sub64(FPR64(d), FPR64(a)), Sub64(TPR64(d), TPR64(a))))

Rates64(a, d) ==
    [EOpp_diff |-> Abs64(Sub64(FNR64(d), FNR64(a))),
     pred_eq_diff |-> Abs64(Sub64(FPR64(d), FPR64(a))),
     EOdds_diff |-> Abs64(Sub64(Add64(TPR64(d), FPR64(d)), Add64(TPR64(a), FPR64(a)))),
     AOD |-> Abs64(AOD64(a, d))]

\* The returned list (lines 105-109).
ReturnList(roc, ps, a, d) ==
    << <<"AUC", roc>>, <<"Avg PrecScore", ps>>, <<"Equal Opps", EOpp_diff(a, d)>>,
       <<"PredEq", pred_eq_diff(a, d)>>, <<"Equal Odds", EOdds_diff(a, d)>>,
       <<"PredParity", prec_diff(a, d)>>, <<"DemoParity", demo_parity_diff(a, d)>>,
       <<"AOD", AOD_abs(a, d)>>, <<"TEq", TE_diff(a, d)>> >>

(***************************************************************************)
(* The call's arguments.  Every quantity fair_metrics computes is a count  *)
(* over rows, so one row order per multiset of rows is enumerated: the     *)
(* rows of attribute value 0 come first, then those of value 1, each as a  *)
(* non-decreasing sequence of row codes (actual label, predicted label,    *)
(* score level).  Two shapes of evaluation set are drawn: up to MaxN rows  *)
(* with scores at every level, and up to MaxTied rows with all scores      *)
(* tied.                                                                   *)
(***************************************************************************)
RowY(c) == c % 2
RowPred(c) == (c \div 2) % 2
RowScore(c) == (c \div 4) + 1

RECURSIVE NonDecreasing(_, _)
NonDecreasing(n, maxCode) ==
    IF n = 0 THEN {<<>>}
    ELSE {t \in {Append(s, c) : s \in NonDecreasing(n - 1, maxCode), c \in 0..maxCode} :
             n = 1 \/ t[n - 1] <= t[n]}

ScoredRows == [n \in 0..MaxN |-> NonDecreasing(n, 4 * Cardinality(ScoreLevels) - 1)]

TiedRows == [n \in 0..MaxTied |-> NonDecreasing(n, 3)]

InputShapes == {[size |-> MaxN, rows |-> ScoredRows], [size |-> MaxTied, rows |-> TiedRows]}

NoCounts == [tn |-> -1, fp |-> -1, fn |-> -1, tp |-> -1]
NoValue == <<-1, -1>>
NoResult == <<>>
NotRaised == <<"", "">>
NoRates64 == [EOpp_diff |-> F64(FALSE, MagZero), pred_eq_diff |-> F64(FALSE, MagZero),
              EOdds_diff |-> F64(FALSE, MagZero), AOD |-> F64(FALSE, MagZero)]

Init ==
    /\ \E shape \in InputShapes :
          \E n0 \in 0..shape.size : \E n1 \in 0..(shape.size - n0) :
             \E rows0 \in shape.rows[n0], rows1 \in shape.rows[n1] :
                LET rows == rows0 \o rows1
                IN /\ n0 + n1 >= 1
                   /\ y_actual = [i \in 1..(n0 + n1) |-> RowY(rows[i])]
                   /\ y_pred_prob = [i \in 1..(n0 + n1) |-> RowScore(rows[i])]
                   /\ y_pred_binary = [i \in 1..(n0 + n1) |-> RowPred(rows[i])]
                   /\ X_test = [i \in 1..(n0 + n1) |-> IF i <= n0 THEN 0 ELSE 1]
    /\ adv_val \in GroupValues
    /\ disadv_val \in GroupValues
    /\ pc = "confusion_adv"
    /\ cm_adv = NoCounts
    /\ cm_disadv = NoCounts
    /\ roc_diff = NoValue
    /\ ps_diff = NoValue
    /\ result = NoResult
    /\ result64 = NoRates64
    /\ raised = NotRaised

Sub(seq, v) == Masked(seq, X_test, v)

\* roc_diff = abs(roc_disadv - roc_adv) (lines 47-57).
RocDiff(adv, disadv) ==
    FAbs(FSub(RocAucScore(Sub(y_actual, disadv), Sub(y_pred_prob, disadv)),
              RocAucScore(Sub(y_actual, adv), Sub(y_pred_prob, adv))))

\* ps_diff = abs(ps_disadv - ps_adv) (lines 60-70).
PsDiff(adv, disadv) ==
    FAbs(FSub(AveragePrecisionScore(Sub(y_actual, disadv), Sub(y_pred_prob, disadv)),
              AveragePrecisionScore(Sub(y_actual, adv), Sub(y_pred_prob, adv))))

args == <<y_actual, y_pred_prob, y_pred_binary, X_test, adv_val, disadv_val>>

\* Lines 36-39: the advantaged subgroup's confusion counts.
ConfusionAdv ==
    /\ pc = "confusion_adv"
    /\ LET flat == ConfusionMatrixRavel(Sub(y_actual, adv_val), Sub(y_pred_binary, adv_val))
       IN IF Unpacks(flat)
          THEN /\ cm_adv' = Counts(flat)
               /\ pc' = "confusion_disadv"
               /\ raised' = raised
          ELSE /\ cm_adv' = cm_adv
               /\ pc' = "raised"
               /\ raised' = <<"ValueError", "confusion_adv">>
    /\ UNCHANGED <<args, cm_disadv, roc_diff, ps_diff, result, result64>>

\* Lines 41-44: the disadvantaged subgroup's confusion counts.
ConfusionDisadv ==
    /\ pc = "confusion_disadv"
    /\ LET flat == ConfusionMatrixRavel(Sub(y_actual, disadv_val),
                                        Sub(y_pred_binary, disadv_val))
       IN IF Unpacks(flat)
          THEN /\ cm_disadv' = Counts(flat)
               /\ pc' = "roc_auc"
               /\ raised' = raised
          ELSE /\ cm_disadv' = cm_disadv
               /\ pc' = "raised"
               /\ raised' = <<"ValueError", "confusion_disadv">>
    /\ UNCHANGED <<args, cm_adv, roc_diff, ps_diff, result, result64>>

\* Lines 46-57: the two ROC AUC scores and their absolute difference.
RocAuc ==
    /\ pc = "roc_auc"
    /\ IF RocDefined(Sub(y_actual, adv_val)) /\ RocDefined(Sub(y_actual, disadv_val))
       THEN /\ roc_diff' = RocDiff(adv_val, disadv_val)
            /\ pc' = "avg_precision"
            /\ raised' = raised
       ELSE /\ roc_diff' = roc_diff
            /\ pc' = "raised"
            /\ raised' = <<"ValueError", "roc_auc">>
    /\ UNCHANGED <<args, cm_adv, cm_disadv, ps_diff, result, result64>>

\* Lines 59-70: the two average precision scores and their absolute difference.
AvgPrecision ==
    /\ pc = "avg_precision"
    /\ ps_diff' = PsDiff(adv_val, disadv_val)
    /\ pc' = "disparities"
    /\ UNCHANGED <<args, cm_adv, cm_disadv, roc_diff, result, result64, raised>>

\* Lines 72-109: the rate disparities and the returned list.
Disparities ==
    /\ pc = "disparities"
    /\ result' = ReturnList(roc_diff, ps_diff, cm_adv, cm_disadv)
    /\ result64' = Rates64(cm_adv, cm_disadv)
    /\ pc' = "returned"
    /\ UNCHANGED <<args, cm_adv, cm_disadv, roc_diff, ps_diff, raised>>

Next ==
    \/ ConfusionAdv
    \/ ConfusionDisadv
    \/ RocAuc
    \/ AvgPrecision
    \/ Disparities

Spec == Init /\ [][Next]_vars

(***************************************************************************)
(* The whole call as a function of the two group values, over the run's    *)
(* data: the returned list, or the statement group that raised.            *)
(***************************************************************************)
fair_metrics(adv, disadv) ==
    LET flat_adv == ConfusionMatrixRavel(Sub(y_actual, adv), Sub(y_pred_binary, adv))
        flat_disadv == ConfusionMatrixRavel(Sub(y_actual, disadv), Sub(y_pred_binary, disadv))
    IN IF ~Unpacks(flat_adv) THEN <<"ValueError", "confusion_adv">>
       ELSE IF ~Unpacks(flat_disadv) THEN <<"ValueError", "confusion_disadv">>
       ELSE IF ~(RocDefined(Sub(y_actual, adv)) /\ RocDefined(Sub(y_actual, disadv)))
            THEN <<"ValueError", "roc_auc">>
       ELSE ReturnList(RocDiff(adv, disadv), PsDiff(adv, disadv),
                       Counts(flat_adv), Counts(flat_disadv))

(***************************************************************************)
(* Hand counts over the rows, independent of the confusion-matrix builder. *)
(***************************************************************************)
RowsOf(g) == {i \in 1..Len(X_test) : X_test[i] = g}
HasClass(g, y) == \E i \in RowsOf(g) : y_actual[i] = y
NRows(g, y, p) == Cardinality({i \in RowsOf(g) : y_actual[i] = y /\ y_pred_binary[i] = p})
TNof(g) == NRows(g, 0, 0)
FPof(g) == NRows(g, 0, 1)
FNof(g) == NRows(g, 1, 0)
TPof(g) == NRows(g, 1, 1)
POSof(g) == FNof(g) + TPof(g)
NEGof(g) == FPof(g) + TNof(g)
Returned == pc = "returned"
Value(i) == result[i][2]
ReportNames == [i \in 1..Len(result) |-> result[i][1]]
BothClasses(g) == HasClass(g, 0) /\ HasClass(g, 1)
ValidInput == adv_val # disadv_val /\ BothClasses(adv_val) /\ BothClasses(disadv_val)
DenominatorsNonZero(g) ==
    /\ POSof(g) # 0
    /\ NEGof(g) # 0
    /\ TPof(g) + FPof(g) # 0
    /\ FPof(g) # 0

\* v is the real number |dn/dd - an/ad|, stated by cross-multiplication.
IsAbsDiff(v, dn, dd, an, ad) ==
    /\ v[2] > 0
    /\ v[1] >= 0
    /\ v[1] * (dd * ad) = v[2] * AbsInt(dn * ad - an * dd)

(***************************************************************************)
(* C1: when every rate denominator of both subgroups is non-zero, the      *)
(* returned list carries |FNR_d - FNR_a|, |FPR_d - FPR_a|,                 *)
(* |(TPR_d+FPR_d) - (TPR_a+FPR_a)|, |Prec_d - Prec_a|, |PosRate_d -        *)
(* PosRate_a|, |0.5*((FPR_d-FPR_a)+(TPR_d-TPR_a))| and |FN_d/FP_d -        *)
(* FN_a/FP_a| as computed by hand from the rows, and the Equal Opps entry  *)
(* is > 0 whenever the two FNRs differ.                                    *)
(***************************************************************************)
C1_Formulas ==
    (Returned /\ DenominatorsNonZero(adv_val) /\ DenominatorsNonZero(disadv_val)) =>
        LET a == adv_val
            d == disadv_val
            oddsN(g) == TPof(g) * NEGof(g) + FPof(g) * POSof(g)
            oddsD(g) == POSof(g) * NEGof(g)
        IN /\ IsAbsDiff(Value(3), FNof(d), POSof(d), FNof(a), POSof(a))
           /\ IsAbsDiff(Value(4), FPof(d), NEGof(d), FPof(a), NEGof(a))
           /\ IsAbsDiff(Value(5), oddsN(d), oddsD(d), oddsN(a), oddsD(a))
           /\ IsAbsDiff(Value(6), TPof(d), TPof(d) + FPof(d), TPof(a), TPof(a) + FPof(a))
           /\ IsAbsDiff(Value(7), TPof(d) + FPof(d), Cardinality(RowsOf(d)),
                                  TPof(a) + FPof(a), Cardinality(RowsOf(a)))
           /\ IsAbsDiff(Value(8), oddsN(d), 2 * oddsD(d), oddsN(a), 2 * oddsD(a))
           /\ IsAbsDiff(Value(9), FNof(d), FPof(d), FNof(a), FPof(a))
           /\ (FNof(d) * POSof(a) # FNof(a) * POSof(d) => Value(3)[1] > 0)

C1_Witness ==
    /\ Returned
    /\ adv_val # disadv_val
    /\ DenominatorsNonZero(adv_val)
    /\ DenominatorsNonZero(disadv_val)
    /\ FNof(disadv_val) * POSof(adv_val) # FNof(adv_val) * POSof(disadv_val)
    /\ Value(3)[1] > 0

(***************************************************************************)
(* C2: for every valid input (distinct group values, both subgroups        *)
(* holding both actual classes) each of the nine returned values is a real *)
(* number >= 0.                                                            *)
(***************************************************************************)
C2_NonNegative ==
    (Returned /\ ValidInput) =>
        \A i \in 1..Len(result) : IsFinite(Value(i)) /\ Value(i)[1] >= 0

(***************************************************************************)
(* C3: the call with adv_val and disadv_val exchanged, on the same data,   *)
(* returns the same nine values.                                           *)
(***************************************************************************)
C3_SwapSymmetric ==
    Returned => fair_metrics(disadv_val, adv_val) = result

C3_Witness ==
    /\ Returned
    /\ adv_val # disadv_val
    /\ Value(8)[1] > 0
    /\ AOD(cm_adv, cm_disadv)[1] < 0
    /\ fair_metrics(disadv_val, adv_val) = result

(***************************************************************************)
(* C4: when the two subgroups have identical contents (the same number of  *)
(* rows for every combination of actual label, predicted label and score)  *)
(* and the input is valid, all nine returned values are 0.                 *)
(***************************************************************************)
SameContents ==
    \A y \in {0, 1}, p \in {0, 1}, sc \in ScoreLevels :
        Cardinality({i \in RowsOf(adv_val) :
            y_actual[i] = y /\ y_pred_binary[i] = p /\ y_pred_prob[i] = sc})
        = Cardinality({i \in RowsOf(disadv_val) :
            y_actual[i] = y /\ y_pred_binary[i] = p /\ y_pred_prob[i] = sc})

C4_IdenticalGroupsZero ==
    (Returned /\ ValidInput /\ SameContents) =>
        \A i \in 1..Len(result) : Value(i) = Zero

C6_EqualValuesRejected ==
    adv_val = disadv_val =>
        /\ pc \in {"confusion_adv", "raised"}
        /\ cm_adv = NoCounts
        /\ result = NoResult

(***************************************************************************)
(* C7: whenever a rate denominator of either subgroup is zero (FN+TP,      *)
(* FP+TN, TP+FP or FP), the call ends in an error and returns no list.     *)
(***************************************************************************)
C7_ZeroDenominatorFails ==
    (adv_val # disadv_val
        /\ (~DenominatorsNonZero(adv_val) \/ ~DenominatorsNonZero(disadv_val))) =>
        /\ ~Returned
        /\ result = NoResult

(***************************************************************************)
(* C8: whenever a subgroup's actual labels hold only one class, whatever   *)
(* its predicted labels are, the call fails at the unpacking of the        *)
(* confusion matrix, before any AUC computation is reached.                *)
(***************************************************************************)
OneClass(g) == RowsOf(g) # {} /\ ~BothClasses(g)

C8_OneClassFailsAtUnpacking ==
    (adv_val # disadv_val /\ (OneClass(adv_val) \/ OneClass(disadv_val))) =>
        /\ pc \in {"confusion_adv", "confusion_disadv", "raised"}
        /\ pc = "raised" => raised[2] \in {"confusion_adv", "confusion_disadv"}
        /\ pc = "confusion_disadv" => ~OneClass(adv_val)

(***************************************************************************)
(* C9: when adv_val or disadv_val matches no row, the call fails (at the   *)
(* unpacking of a confusion matrix, whatever the other subgroup holds) and *)
(* returns no list.                                                        *)
(***************************************************************************)
C9_EmptySubgroupFails ==
    (RowsOf(adv_val) = {} \/ RowsOf(disadv_val) = {}) =>
        /\ pc \in {"confusion_adv", "confusion_disadv", "raised"}
        /\ pc = "confusion_disadv" => RowsOf(adv_val) # {}
        /\ pc = "raised" => raised[1] = "ValueError"
        /\ result = NoResult

C9_Witness ==
    /\ pc = "raised"
    /\ raised = <<"ValueError", "confusion_disadv">>
    /\ RowsOf(disadv_val) = {}
    /\ BothClasses(adv_val)
    /\ DenominatorsNonZero(adv_val)

(***************************************************************************)
(* C10 (as claimed): in every returned list the AOD value is exactly one   *)
(* half of the Equal Odds value and the Equal Opps value equals            *)
(* |TPR_d - TPR_a|, as the values Python computes.                         *)
(***************************************************************************)
Double64(x) == F64(x.neg, MagAdd(x.mag, x.mag))

TprGap64 == Abs64(Sub64(TPR64(cm_disadv), TPR64(cm_adv)))

C10_ExactlyHalf ==
    Returned =>
        /\ Double64(result64.AOD) = result64.EOdds_diff
        /\ result64.EOpp_diff = TprGap64

(***************************************************************************)
(* C10 (amended): in every returned list the AOD entry denotes one half of *)
(* the Equal Odds entry and the Equal Opps entry denotes |TPR_d - TPR_a|   *)
(* as real numbers; the binary64 values computed agree with this to within *)
(* 2^-50, not exactly.                                                     *)
(***************************************************************************)
\* |x - y| <= 2^-50 for non-negative x, y.
Within64(x, y) ==
    LET gap == IF MagLess(x.mag, y.mag) THEN MagSub(y.mag, x.mag) ELSE MagSub(x.mag, y.mag)
    IN gap[1] = 0 /\ gap[2] = 0 /\ gap[3] <= 2^(GridBits - 50)

C10_Redundancy ==
    Returned =>
        /\ IsFinite(Value(8))
        /\ IsFinite(Value(5))
        /\ 2 * Value(8)[1] * Value(5)[2] = Value(5)[1] * Value(8)[2]
        /\ IsAbsDiff(Value(3), TPof(disadv_val), POSof(disadv_val),
                               TPof(adv_val), POSof(adv_val))
        /\ Within64(Double64(result64.AOD), result64.EOdds_diff)
        /\ Within64(result64.EOpp_diff, TprGap64)

C10_Witness ==
    /\ Returned
    /\ adv_val # disadv_val
    /\ Value(5)[1] > 0
    /\ Value(3)[1] > 0
    /\ 2 * Value(8)[1] * Value(5)[2] = Value(5)[1] * Value(8)[2]
    /\ Double64(result64.AOD) # result64.EOdds_diff
    /\ Within64(Double64(result64.AOD), result64.EOdds_diff)
    /\ result64.EOpp_diff # TprGap64
    /\ Within64(result64.EOpp_diff, TprGap64)

====
